---- MODULE Spec2Model ----
(***************************************************************************)
(* State-machine model of denops-std's buffer module (buffer/buffer.ts):   *)
(* the TypeScript functions modifiable, ensure, append, replace, concrete  *)
(* and the Vim script routines they register at the host                   *)
(* (DenopsStdBufferAppend, DenopsStdBufferReplace,                         *)
(* DenopsStdBufferConcreteStore, DenopsStdBufferConcreteRestore).          *)
(*                                                                         *)
(* The host editor is modelled by its buffers (lines and options), its     *)
(* windows (one tab page) and the active window.  An asynchronous          *)
(* TypeScript call is a frame on `stack`; every await of the source is a   *)
(* step of the frame on top of the stack.                                  *)
(***************************************************************************)
EXTENDS Integers, Sequences, FiniteSets, TLC

\* ---------------------------------------------------------------- bounds
NumBufs == 2
NumWins == 2
MaxLines == 2
MaxDepth == 2
MaxUrls == 2
MaxBytes == 3

Buffers == 1..NumBufs
\* One more buffer of the host, which no window displays.
HiddenBuffer == NumBufs + 1
AllBuffers == Buffers \cup {HiddenBuffer}
Windows == 1..NumWins
\* The text of a line is opaque to the program: a line is named by a number,
\* EmptyLine being the empty string.  The line i of a buffer initially holds
\* the text i, the line i of a `repl` argument the text -i.
EmptyLine == 0
EmptyBuffer == <<EmptyLine>>
\* A host buffer always holds at least one line.
Contents == {[i \in 1..n |-> i] : n \in 1..MaxLines}
\* A `repl` argument may be the empty list.
Repls == {[i \in 1..n |-> 0 - i] : n \in 0..MaxLines}
FileFormats == {"unix", "dos", "mac"}
FileTypes == {"", "ft"}
Outcomes == {"return", "throw", "reject"}
NoWin == -1
NoLnum == -1
Null == "null"
NoSnapshot == [present |-> FALSE, filetype |-> "", content |-> <<>>]
\* The autocmds of a buffer in the group denops_std_buffer_concrete_{suffix}.
ConcreteEvents == {"BufWriteCmd", "BufReadCmd"}
ConcreteHooks == ConcreteEvents \X Buffers
\* A buffer's record in `history`: the snapshot taken when a store last ran
\* for it, which event took it (`by`), the content of its first snapshot
\* (`first`) and whether the user has edited the buffer since (`dirty`).
NoHistory ==
  [present |-> FALSE, filetype |-> "", content |-> <<>>, by |-> "none",
   first |-> <<>>, dirty |-> FALSE]
\* What the properties read of a buffer: its lines, 'filetype', 'modified'
\* and 'modifiable'.
NoEntry ==
  [lines |-> <<>>, filetype |-> "", modified |-> FALSE, modifiable |-> FALSE]
\* The :edit commands run by a routine or an autocmd: how many, and for the
\* last of them its buffer, its window and whether it succeeded.
NoEdit == [n |-> 0, buf |-> 0, win |-> 0, ok |-> TRUE]
\* The last event: its kind, its buffer, whether the routine it ran raised
\* an error (`err`), the buffer as the routine found it (`entry`), the active
\* window, its buffer, the visibility of the event's buffer and the reload
\* autocmds when the event began (`win`, `cur`, `visible`, `hooks`), and
\* the :edit commands the event ran (`edited`).
NoEvent ==
  [kind |-> "none", buf |-> 0, err |-> FALSE, entry |-> NoEntry,
   win |-> 0, cur |-> 0, visible |-> FALSE, hooks |-> <<>>,
   edited |-> NoEdit]

\* A URL object: its protocol and href, and which object it is (`id`); two
\* URL objects made from the same string are two objects.
Hrefs == {"file:///a.vim", "https://host/b.vim"}
Protocol(href) == IF href = "file:///a.vim" THEN "file:" ELSE "https:"
Urls ==
  {[protocol |-> Protocol(href), href |-> href, id |-> i] :
     href \in Hrefs, i \in 1..MaxUrls}
NoUrl == [protocol |-> "", href |-> "", id |-> 0]

\* The bytes of `data`: a letter, CR, LF, and a byte that is no UTF-8 (0xFF).
Bytes == {"a", "r", "n", "x"}
Datas == UNION {[1..n -> Bytes] : n \in 0..MaxBytes}
\* The values of 'fileformats' and 'fileencodings' the host is asked for.
FileFormatLists ==
  {<<"unix", "dos">>, <<"dos", "unix", "mac">>, <<"mac">>}
FileEncodingLists ==
  {<<"utf-8">>, <<"utf-8", "latin1">>, <<"latin1", "utf-8">>,
   <<"utf-8", "euc-jp">>}
NoDecoded == [content |-> <<>>, fileformat |-> Null, fileencoding |-> Null]

VARIABLES
  lines,          \* host: buffer -> its line sequence
  optModified,    \* host: buffer -> 'modified'
  optModifiable,  \* host: buffer -> 'modifiable'
  filetype,       \* host: buffer -> 'filetype'
  fileformat,     \* host: buffer -> 'fileformat'
  fileencoding,   \* host: buffer -> 'fileencoding'
  winbuf,         \* host: window -> the buffer it displays
  curwin,         \* host: the active window
  context,        \* denops.context[cacheKey]: Null or the suffix
  registered,     \* host: the registration script has been executed
  cache,          \* host: s:denops_std_buffer_concrete_cache_{suffix}
  augroupConcrete,\* host: autocmds of denops_std_buffer_concrete_{suffix}
  stack,          \* the TypeScript calls in progress, innermost last
  event,          \* the last call made or host event delivered
  history,        \* per buffer, the buffer as it was at its last store
  ulids,          \* the number of identifiers ulid() has generated
  otherContext,   \* denops.context[cacheKey] of a second session
  executions,     \* how many times the registration script was executed
  obtained,       \* the suffixes ensurePrerequisites has returned
  augroupReload,  \* host: autocmds of denops_std_buffer_reload_{suffix}
  augroupSession, \* host: autocmds of denops_std_buffer_{suffix}
  timers,         \* host: the bufnrs of the pending timer_start callbacks
  stopped,        \* the session's termination event has been delivered
  loaded          \* helper/load.ts: the module's `loaded` set

hostVars == <<lines, optModified, optModifiable, filetype, fileformat,
              fileencoding, winbuf, curwin>>
bufVars == <<lines, optModified, optModifiable, filetype, fileformat,
             fileencoding>>
winVars == <<winbuf, curwin>>
sessionVars == <<context, registered, cache, augroupConcrete>>
vars == <<lines, optModified, optModifiable, filetype, fileformat,
          fileencoding, winbuf, curwin, context, registered, cache,
          augroupConcrete, stack, event, history, ulids, otherContext,
          executions, obtained, augroupReload, augroupSession, timers,
          stopped, loaded>>
registryVars == <<ulids, otherContext, executions, obtained>>
hookVars == <<augroupReload, augroupSession, timers, stopped>>
\* The variables beyond the host's buffers and windows, the session's
\* context entry, its routines and its snapshot map.
extVars == <<registryVars, hookVars, loaded>>

\* ------------------------------------------------------------ host helpers
\* bufnr(): the buffer of the active window.
CurBuf == winbuf[curwin]

Min(S) == CHOOSE x \in S : \A y \in S : x <= y

\* bufwinid(buf): the first window of the tab page that displays buf, or -1.
BufWinId(wb, b) ==
  LET ws == {w \in Windows : wb[w] = b}
  IN IF ws = {} THEN NoWin ELSE Min(ws)

Event(kind, b) == [NoEvent EXCEPT !.kind = kind, !.buf = b]

\* ------------------------------------------------------------ call frames
Top == stack[Len(stack)]
Depth == Len(stack)

SetTop(f) == [stack EXCEPT ![Len(stack)] = f]

NewFrame(op, b, exec) ==
  [op |-> op, bufnr |-> b, pc |-> "start", exec |-> exec,
   mode |-> "none", pending |-> "none", outcome |-> "none",
   savedModified |-> FALSE, savedModifiable |-> FALSE,
   bufnrCur |-> 0, winidCur |-> 0, winidNext |-> 0,
   repl |-> <<>>, lnum |-> NoLnum, ff |-> Null, fenc |-> Null,
   suffix |-> Null, url |-> NoUrl, force |-> FALSE, result |-> "none",
   sourced |-> FALSE, entryLoaded |-> loaded,
   data |-> <<>>, fileformat |-> Null, fileformats |-> <<>>,
   fileencodings |-> <<>>, decoded |-> NoDecoded,
   \* bookkeeping of the call, read by the properties only
   entryModified |-> optModified[b], entryModifiable |-> optModifiable[b],
   entryLines |-> lines[b],
   entryWin |-> curwin, entryWinbuf |-> winbuf, entryCache |-> cache,
   entryHooks |-> augroupConcrete,
   touched |-> FALSE, switched |-> FALSE, nested |-> "none",
   restored |-> "none"]

\* ---------------------------------------------------- calls and executors
\* A call is made by the plugin when nothing runs, or by the executor of the
\* call on top of the stack (a nested call).
CanInvoke ==
  \/ Depth = 0
  \/ /\ Depth > 0
     /\ Depth < MaxDepth
     /\ Top.pc = "action"
     /\ Top.exec = "user"

Invoke(op, b, exec) ==
  /\ CanInvoke
  /\ stack' = Append(stack, NewFrame(op, b, exec))
  /\ UNCHANGED <<hostVars, sessionVars, event, history, extVars>>

\* The executor passed by the caller changes 'modified' of the buffer (as an
\* edit does, or a :write).
ActSetModified(v) ==
  /\ Depth > 0
  /\ Top.pc = "action"
  /\ Top.exec = "user"
  /\ optModified[Top.bufnr] # v
  /\ optModified' = [optModified EXCEPT ![Top.bufnr] = v]
  /\ UNCHANGED <<lines, optModifiable, filetype, fileformat, fileencoding,
                 winVars, sessionVars, stack, event, history,
                 extVars>>

\* The executor passed by the caller changes 'modifiable' of the buffer.
ActSetModifiable(v) ==
  /\ Depth > 0
  /\ Top.pc = "action"
  /\ Top.exec = "user"
  /\ optModifiable[Top.bufnr] # v
  /\ optModifiable' = [optModifiable EXCEPT ![Top.bufnr] = v]
  /\ stack' = SetTop([Top EXCEPT !.touched = TRUE])
  /\ UNCHANGED <<lines, optModified, filetype, fileformat, fileencoding,
                 winVars, sessionVars, event, history,
                 extVars>>

\* The executor passed by the caller closes a window other than the active
\* one (:{nr}close): the window shows no buffer any more and its id is gone.
ActCloseWindow(w) ==
  /\ Depth > 0
  /\ Top.pc = "action"
  /\ Top.exec = "user"
  /\ w # curwin
  /\ winbuf[w] # 0
  /\ winbuf' = [winbuf EXCEPT ![w] = 0]
  /\ UNCHANGED <<bufVars, curwin, sessionVars, stack, event, history,
                 extVars>>

\* `return executor()` of ensure's first branch has no finally clause.
HasFinally(f) == ~(f.op = "ensure" /\ f.mode = "inplace")

Result(o) == IF o = "return" THEN "ok" ELSE "err"

\* The executor ends: it returns, throws (synchronously) or rejects.
ActFinish(o) ==
  /\ Depth > 0
  /\ Top.pc = "action"
  /\ Top.exec = "user"
  /\ stack' = SetTop(IF HasFinally(Top)
                     THEN [Top EXCEPT !.pc = "finally",
                                      !.pending = Result(o)]
                     ELSE [Top EXCEPT !.pc = "done",
                                      !.outcome = Result(o)])
  /\ UNCHANGED <<hostVars, sessionVars, event, history, extVars>>

\* What the caller of a finished call keeps of it.
Resume(parent, child) ==
  IF child.op = parent.op /\ child.bufnr = parent.bufnr
  THEN [parent EXCEPT !.nested = child.outcome]
  ELSE parent

\* A finished call returns to its caller.
Return ==
  /\ Depth > 0
  /\ Top.pc = "done"
  /\ Top.exec # "line"
  /\ stack' = IF Depth = 1 THEN <<>>
              ELSE [SubSeq(stack, 1, Depth - 1)
                      EXCEPT ![Depth - 1] = Resume(stack[Depth - 1], Top)]
  /\ UNCHANGED <<hostVars, sessionVars, event, history, extVars>>

\* ------------------------------------------------------------- modifiable
\* batch.collect of op.modified.getBuffer and op.modifiable.getBuffer.
CapturedModified(b) == optModified[b]

\* Mutant: 'modifiable' is read after it has been forced on.
CapturedModifiable_AfterSet(b) == TRUE

CapturedModifiable(b) == optModifiable[b]

ModifiableCollect ==
  /\ Depth > 0
  /\ Top.op = "modifiable"
  /\ Top.pc = "start"
  /\ stack' = SetTop([Top EXCEPT !.pc = "set",
                        !.savedModified = CapturedModified(Top.bufnr),
                        !.savedModifiable = CapturedModifiable(Top.bufnr)])
  /\ UNCHANGED <<hostVars, sessionVars, event, history, extVars>>

\* fn.setbufvar(denops, bufnr, "&modifiable", 1)
ModifiableSet ==
  /\ Depth > 0
  /\ Top.op = "modifiable"
  /\ Top.pc = "set"
  /\ optModifiable' = [optModifiable EXCEPT ![Top.bufnr] = TRUE]
  /\ stack' = SetTop([Top EXCEPT !.pc = "action"])
  /\ UNCHANGED <<lines, optModified, filetype, fileformat, fileencoding,
                 winVars, sessionVars, event, history,
                 extVars>>

\* The finally clause: the batch of both setbufvar calls.
\* Mutant: the finally clause leaves 'modified' as the executor left it.
RestoredModified_Skip(f) == optModified

RestoredModified(f) == [optModified EXCEPT ![f.bufnr] = f.savedModified]

RestoredModifiable(f) == [optModifiable EXCEPT ![f.bufnr] = f.savedModifiable]

ModifiableRestore ==
  /\ Depth > 0
  /\ Top.op = "modifiable"
  /\ Top.pc = "finally"
  /\ optModified' = RestoredModified(Top)
  /\ optModifiable' = RestoredModifiable(Top)
  /\ stack' = SetTop([Top EXCEPT !.pc = "done",
                                 !.outcome = Top.pending,
                                 !.pending = "none",
                                 !.restored = "ok"])
  /\ UNCHANGED <<lines, filetype, fileformat, fileencoding,
                 winVars, sessionVars, event, history,
                 extVars>>

\* An `await` of a finally clause that rejects replaces whatever the try
\* block had ended with.
FinallyRejected(f) ==
  [f EXCEPT !.pc = "done", !.outcome = "err", !.pending = "none",
            !.restored = "rejected"]

\* The batch of the finally clause fails: the host raises an error at the
\* first setbufvar (done = 0) or at the second (done = 1), and the batch
\* rejects.
ModifiableRestoreFails(done) ==
  /\ Depth > 0
  /\ Top.op = "modifiable"
  /\ Top.pc = "finally"
  /\ optModified' = IF done = 1 THEN RestoredModified(Top) ELSE optModified
  /\ stack' = SetTop(FinallyRejected(Top))
  /\ UNCHANGED <<lines, optModifiable, filetype, fileformat, fileencoding,
                 winVars, sessionVars, event, history,
                 extVars>>

\* ----------------------------------------------------------------- ensure
\* batch.collect of fn.bufnr, fn.win_getid and fn.bufwinid(bufnr).
EnsureCollect ==
  /\ Depth > 0
  /\ Top.op = "ensure"
  /\ Top.pc = "start"
  /\ stack' = SetTop([Top EXCEPT !.pc = "branch",
                        !.bufnrCur = CurBuf,
                        !.winidCur = curwin,
                        !.winidNext = BufWinId(winbuf, Top.bufnr)])
  /\ UNCHANGED <<hostVars, sessionVars, event, history, extVars>>

\* The branch ensure takes.
EnsureMode(f) ==
  IF f.winidCur = f.winidNext THEN "inplace"
  ELSE IF f.winidNext = NoWin THEN "buffer"
  ELSE "window"

\* `return executor()`: no host call before the executor.
EnsureInPlace ==
  /\ Depth > 0
  /\ Top.op = "ensure"
  /\ Top.pc = "branch"
  /\ EnsureMode(Top) = "inplace"
  /\ stack' = SetTop([Top EXCEPT !.pc = "action", !.mode = "inplace"])
  /\ UNCHANGED <<hostVars, sessionVars, event, history, extVars>>

\* denops.cmd(`keepjumps keepalt ${bufnr}buffer`)
EnsureSwitchBuffer ==
  /\ Depth > 0
  /\ Top.op = "ensure"
  /\ Top.pc = "branch"
  /\ EnsureMode(Top) = "buffer"
  /\ winbuf' = [winbuf EXCEPT ![curwin] = Top.bufnr]
  /\ stack' = SetTop([Top EXCEPT !.pc = "action", !.mode = "buffer",
                                 !.switched = TRUE])
  /\ UNCHANGED <<bufVars, curwin, sessionVars, event, history, extVars>>

\* fn.win_gotoid(denops, winidNext)
EnsureGotoWin ==
  /\ Depth > 0
  /\ Top.op = "ensure"
  /\ Top.pc = "branch"
  /\ EnsureMode(Top) = "window"
  /\ curwin' = Top.winidNext
  /\ stack' = SetTop([Top EXCEPT !.pc = "action", !.mode = "window",
                                 !.switched = TRUE])
  /\ UNCHANGED <<bufVars, winbuf, sessionVars, event, history, extVars>>

\* The finally clauses of ensure.
\* Mutant: the original buffer is not switched back to.
RestoredWinbuf_Skip(f) == winbuf

RestoredWinbuf(f) ==
  IF f.mode = "buffer" THEN [winbuf EXCEPT ![curwin] = f.bufnrCur] ELSE winbuf

\* win_gotoid(winidCur) goes to the window if it is still there; if it
\* cannot be found it returns 0, raises no error and changes nothing.
WinFound(w) == winbuf[w] # 0

RestoredCurwin(f) ==
  IF f.mode = "window" /\ WinFound(f.winidCur) THEN f.winidCur ELSE curwin

\* The value of win_gotoid is not looked at.
EnsureRestored(f) ==
  IF f.mode = "window" /\ ~WinFound(f.winidCur) THEN "not found" ELSE "ok"

EnsureRestore ==
  /\ Depth > 0
  /\ Top.op = "ensure"
  /\ Top.pc = "finally"
  /\ winbuf' = RestoredWinbuf(Top)
  /\ curwin' = RestoredCurwin(Top)
  /\ stack' = SetTop([Top EXCEPT !.pc = "done",
                                 !.outcome = Top.pending,
                                 !.pending = "none",
                                 !.restored = EnsureRestored(Top)])
  /\ UNCHANGED <<bufVars, sessionVars, event, history, extVars>>

\* The host call of the finally clause raises an error (:{bufnrCur}buffer
\* with E37 or E86, or the call of win_gotoid itself) and rejects; nothing
\* is switched.
EnsureRestoreFails ==
  /\ Depth > 0
  /\ Top.op = "ensure"
  /\ Top.pc = "finally"
  /\ stack' = SetTop(FinallyRejected(Top))
  /\ UNCHANGED <<hostVars, sessionVars, event, history, extVars>>

\* ------------------------------------------------------ host script engine
\* The host state a Vim script routine works on, with `err`: an error was
\* raised.  The routines are defined with `abort`: after an error no further
\* command of the routine runs.
Host ==
  [lines |-> lines, modified |-> optModified, modifiable |-> optModifiable,
   fileformat |-> fileformat, fileencoding |-> fileencoding,
   filetype |-> filetype, cache |-> cache, err |-> FALSE]

\* setbufvar(buf, '&modified', v)
SetModified(h, b, v) ==
  IF h.err THEN h ELSE [h EXCEPT !.modified[b] = v]

\* setbufvar(buf, '&modifiable', v)
SetModifiable(h, b, v) ==
  IF h.err THEN h ELSE [h EXCEPT !.modifiable[b] = v]

\* setbufvar(buf, '&fileformat', v): E474 for an unknown format, E21 when
\* the buffer is not modifiable.
SetFileFormat(h, b, v) ==
  IF h.err THEN h
  ELSE IF v \notin FileFormats \/ ~h.modifiable[b] THEN [h EXCEPT !.err = TRUE]
  ELSE [h EXCEPT !.fileformat[b] = v]

\* setbufvar(buf, '&fileencoding', v): E21 when the buffer is not modifiable.
SetFileEncoding(h, b, v) ==
  IF h.err THEN h
  ELSE IF ~h.modifiable[b] THEN [h EXCEPT !.err = TRUE]
  ELSE [h EXCEPT !.fileencoding[b] = v]

\* appendbufline(buf, lnum, repl): the lines go below line lnum (0: above the
\* first); an error for a line number outside the buffer or a buffer that is
\* not modifiable; a change sets 'modified'.
AppendBufLine(h, b, lnum, repl) ==
  IF h.err THEN h
  ELSE IF lnum < 0 \/ lnum > Len(h.lines[b]) \/ ~h.modifiable[b]
  THEN [h EXCEPT !.err = TRUE]
  ELSE IF repl = <<>> THEN h
  ELSE [h EXCEPT !.lines[b] = SubSeq(@, 1, lnum) \o repl
                               \o SubSeq(@, lnum + 1, Len(@)),
                 !.modified[b] = TRUE]

\* setbufline(buf, 1, repl): the lines 1..len(repl) are overwritten, those
\* beyond the last line of the buffer are added.
SetBufLine(h, b, repl) ==
  IF h.err THEN h
  ELSE IF repl = <<>> THEN h
  ELSE IF ~h.modifiable[b] THEN [h EXCEPT !.err = TRUE]
  ELSE [h EXCEPT !.lines[b] = repl \o SubSeq(@, Len(repl) + 1, Len(@)),
                 !.modified[b] = TRUE]

\* deletebufline(buf, first, '$'): nothing (and no error) when first is
\* beyond the last line; a buffer left without a line holds one empty line.
DeleteBufLine(h, b, first) ==
  IF h.err THEN h
  ELSE IF first < 1 \/ first > Len(h.lines[b]) THEN h
  ELSE [h EXCEPT !.lines[b] = IF first = 1 THEN EmptyBuffer
                              ELSE SubSeq(@, 1, first - 1),
                 !.modified[b] = TRUE]

\* Mutant: 'modified' is not written back after the insertion.
DenopsStdBufferAppend_NoModified(h, bufnr, lnum, repl) ==
  LET modifiable == h.modifiable[bufnr]
      h1 == SetModifiable(h, bufnr, TRUE)
      h2 == AppendBufLine(h1, bufnr, lnum, repl)
  IN SetModifiable(h2, bufnr, modifiable)

\* function! DenopsStdBufferAppend_{suffix}(bufnr, lnum, repl) abort
DenopsStdBufferAppend(h, bufnr, lnum, repl) ==
  LET modified == h.modified[bufnr]
      modifiable == h.modifiable[bufnr]
      h1 == SetModifiable(h, bufnr, TRUE)
      h2 == AppendBufLine(h1, bufnr, lnum, repl)
      h3 == SetModified(h2, bufnr, modified)
  IN SetModifiable(h3, bufnr, modifiable)

\* Mutant: 'modifiable' is left on.
DenopsStdBufferReplace_NoModifiable(h, bufnr, repl, ff, fenc) ==
  LET modified == h.modified[bufnr]
      h1 == SetModifiable(h, bufnr, TRUE)
      h2 == IF ff # Null THEN SetFileFormat(h1, bufnr, ff) ELSE h1
      h3 == IF fenc # Null THEN SetFileEncoding(h2, bufnr, fenc) ELSE h2
      h4 == SetBufLine(h3, bufnr, repl)
      h5 == DeleteBufLine(h4, bufnr, Len(repl) + 1)
  IN SetModified(h5, bufnr, modified)

\* Mutant: the lines beyond len(repl) are not deleted.
DenopsStdBufferReplace_NoDelete(h, bufnr, repl, ff, fenc) ==
  LET modified == h.modified[bufnr]
      modifiable == h.modifiable[bufnr]
      h1 == SetModifiable(h, bufnr, TRUE)
      h2 == IF ff # Null THEN SetFileFormat(h1, bufnr, ff) ELSE h1
      h3 == IF fenc # Null THEN SetFileEncoding(h2, bufnr, fenc) ELSE h2
      h4 == SetBufLine(h3, bufnr, repl)
      h6 == SetModified(h4, bufnr, modified)
  IN SetModifiable(h6, bufnr, modifiable)

\* function! DenopsStdBufferReplace_{suffix}(bufnr, repl, fileformat,
\* fileencoding) abort
DenopsStdBufferReplace(h, bufnr, repl, ff, fenc) ==
  LET modified == h.modified[bufnr]
      modifiable == h.modifiable[bufnr]
      h1 == SetModifiable(h, bufnr, TRUE)
      h2 == IF ff # Null THEN SetFileFormat(h1, bufnr, ff) ELSE h1
      h3 == IF fenc # Null THEN SetFileEncoding(h2, bufnr, fenc) ELSE h2
      h4 == SetBufLine(h3, bufnr, repl)
      h5 == DeleteBufLine(h4, bufnr, Len(repl) + 1)
      h6 == SetModified(h5, bufnr, modified)
  IN SetModifiable(h6, bufnr, modifiable)

\* The host state after a routine ran.
Commit(h) ==
  /\ lines' = h.lines
  /\ optModified' = h.modified
  /\ optModifiable' = h.modifiable
  /\ fileformat' = h.fileformat
  /\ fileencoding' = h.fileencoding
  /\ filetype' = h.filetype
  /\ cache' = h.cache

\* ------------------------------------------------------ ensurePrerequisites
\* ulid(): the identifiers it generates, in the order of generation; no two
\* of them are equal.
Ulids == <<"01A", "01B", "01C">>

Ulid(n) == Ulids[n]

\* The autocmds of the group denops_std_buffer_{suffix}, each defined for
\* User DenopsStopped,DenopsClosed with ++once.
TerminationCommands ==
  {"unlet cache", "clear reload", "clear concrete", "clear session"}

\* The calls that start with `await ensurePrerequisites(denops)`.
NeedsPrerequisites(f) ==
  f.op \in {"open", "reload", "append", "replace", "concrete"}

\* Mutant: the context entry is never taken as memoized.
Memoized_Never(entry) == FALSE

\* typeof denops.context[cacheKey] === "string"
Memoized(entry) == entry # Null

\* The memoized suffix is returned.
PrerequisitesCached ==
  /\ Depth > 0
  /\ NeedsPrerequisites(Top)
  /\ Top.pc = "start"
  /\ Memoized(context)
  /\ stack' = SetTop([Top EXCEPT !.pc = "ready", !.suffix = context])
  /\ obtained' = obtained \cup {context}
  /\ UNCHANGED <<hostVars, sessionVars, event, history, ulids, otherContext,
                 executions, hookVars, loaded>>

\* denops.context[cacheKey] = suffix, before the script is executed.
PrerequisitesMemoize ==
  /\ Depth > 0
  /\ NeedsPrerequisites(Top)
  /\ Top.pc = "start"
  /\ ~Memoized(context)
  /\ ulids < Len(Ulids)
  /\ ulids' = ulids + 1
  /\ context' = Ulid(ulids + 1)
  /\ stack' = SetTop([Top EXCEPT !.pc = "register",
                                 !.suffix = Ulid(ulids + 1)])
  /\ UNCHANGED <<hostVars, registered, cache, augroupConcrete, event, history,
                 otherContext, executions, obtained, hookVars, loaded>>

\* await execute(denops, script): the routines are defined, the snapshot
\* map is created empty and the group of the termination autocmds is
\* defined; then `return suffix`.
PrerequisitesExecute ==
  /\ Depth > 0
  /\ NeedsPrerequisites(Top)
  /\ Top.pc = "register"
  /\ registered' = TRUE
  /\ cache' = [b \in Buffers |-> NoSnapshot]
  /\ augroupSession' = TerminationCommands
  /\ executions' = executions + 1
  /\ obtained' = obtained \cup {Top.suffix}
  /\ stack' = SetTop([Top EXCEPT !.pc = "ready"])
  /\ UNCHANGED <<hostVars, context, augroupConcrete, event, history, ulids,
                 otherContext, augroupReload, timers, stopped, loaded>>

\* await execute(denops, script) rejects: the host raises an error in the
\* script, the routines are not all defined, and ensurePrerequisites rejects
\* with it; denops.context[cacheKey] keeps the suffix.
PrerequisitesExecuteFails ==
  /\ Depth > 0
  /\ NeedsPrerequisites(Top)
  /\ Top.pc = "register"
  /\ executions' = executions + 1
  /\ stack' = SetTop([Top EXCEPT !.pc = "done", !.outcome = "err"])
  /\ UNCHANGED <<hostVars, sessionVars, event, history, ulids, otherContext,
                 obtained, hookVars, loaded>>

\* ----------------------------------------------------------------- append
\* append(denops, bufnr, repl, options) is called.
CallAppend(b, repl, lnum) ==
  /\ Depth = 0
  /\ event = NoEvent
  /\ stack' = <<[NewFrame("append", b, "none")
                   EXCEPT !.repl = repl, !.lnum = lnum]>>
  /\ event' = Event("call", b)
  /\ UNCHANGED <<hostVars, sessionVars, history, extVars>>

\* options.lnum is given: no host call is needed for the position.
AppendLnumGiven ==
  /\ Depth > 0
  /\ Top.op = "append"
  /\ Top.pc = "ready"
  /\ Top.lnum # NoLnum
  /\ stack' = SetTop([Top EXCEPT !.pc = "call"])
  /\ UNCHANGED <<hostVars, sessionVars, event, history, extVars>>

\* options.lnum ?? await ensure(denops, bufnr, () => fn.line(denops, "."))
AppendAskLine ==
  /\ Depth > 0
  /\ Top.op = "append"
  /\ Top.pc = "ready"
  /\ Top.lnum = NoLnum
  /\ stack' = Append(SetTop([Top EXCEPT !.pc = "line"]),
                     NewFrame("ensure", Top.bufnr, "line"))
  /\ UNCHANGED <<hostVars, sessionVars, event, history, extVars>>

\* fn.line(denops, "."): the cursor line of the active window, a line of the
\* buffer it displays.
ExecLine(n) ==
  /\ Depth > 0
  /\ Top.pc = "action"
  /\ Top.exec = "line"
  /\ n \in 1..Len(lines[CurBuf])
  /\ stack' = SetTop(IF HasFinally(Top)
                     THEN [Top EXCEPT !.pc = "finally", !.pending = "ok",
                                      !.lnum = n]
                     ELSE [Top EXCEPT !.pc = "done", !.outcome = "ok",
                                      !.lnum = n])
  /\ UNCHANGED <<hostVars, sessionVars, event, history, extVars>>

\* ensure has resolved with the cursor line.
AppendGotLine ==
  /\ Depth > 1
  /\ Top.pc = "done"
  /\ Top.exec = "line"
  /\ stack[Depth - 1].pc = "line"
  /\ stack' = [SubSeq(stack, 1, Depth - 1)
                 EXCEPT ![Depth - 1] = [@ EXCEPT !.pc = "call",
                                                 !.lnum = Top.lnum]]
  /\ UNCHANGED <<hostVars, sessionVars, event, history, extVars>>

\* What a routine call reports to the caller.
CallOutcome(h) == IF h.err \/ ~registered THEN "err" ELSE "ok"

\* await denops.call(`DenopsStdBufferAppend_${suffix}`, bufnr, lnum, repl)
AppendCall ==
  /\ Depth > 0
  /\ Top.op = "append"
  /\ Top.pc = "call"
  /\ LET h == IF registered
              THEN DenopsStdBufferAppend(Host, Top.bufnr, Top.lnum, Top.repl)
              ELSE Host
     IN /\ Commit(h)
        /\ stack' = SetTop([Top EXCEPT !.pc = "done",
                                       !.outcome = CallOutcome(h)])
  /\ UNCHANGED <<winVars, context, registered, augroupConcrete, event, history,
                 extVars>>

\* ---------------------------------------------------------------- replace
\* replace(denops, bufnr, repl, options) is called.
CallReplace(b, repl, ff, fenc) ==
  /\ Depth = 0
  /\ event = NoEvent
  /\ stack' = <<[NewFrame("replace", b, "none")
                   EXCEPT !.repl = repl, !.ff = ff, !.fenc = fenc]>>
  /\ event' = Event("call", b)
  /\ UNCHANGED <<hostVars, sessionVars, history, extVars>>

\* await denops.call(`DenopsStdBufferReplace_${suffix}`, bufnr, repl,
\*   options.fileformat ?? null, options.fileencoding ?? null)
ReplaceCall ==
  /\ Depth > 0
  /\ Top.op = "replace"
  /\ Top.pc = "ready"
  /\ LET h == IF registered
              THEN DenopsStdBufferReplace(Host, Top.bufnr, Top.repl,
                                          Top.ff, Top.fenc)
              ELSE Host
     IN /\ Commit(h)
        /\ stack' = SetTop([Top EXCEPT !.pc = "done",
                                       !.outcome = CallOutcome(h)])
  /\ UNCHANGED <<winVars, context, registered, augroupConcrete, event, history,
                 extVars>>

\* --------------------------------------------------------------- concrete
Snapshot(ft, content) ==
  [present |-> TRUE, filetype |-> ft, content |-> content]

\* Mutant: a snapshot already stored for the buffer is kept.
DenopsStdBufferConcreteStore_KeepFirst(h, cur) ==
  IF h.err \/ h.cache[cur].present THEN h
  ELSE [h EXCEPT !.cache[cur] = Snapshot(h.filetype[cur], h.lines[cur])]

\* function! DenopsStdBufferConcreteStore_{suffix}() abort, run while `cur`
\* is the current buffer: the entry of bufnr() is overwritten with &filetype
\* and getline(1, '$').
DenopsStdBufferConcreteStore(h, cur) ==
  IF h.err THEN h
  ELSE [h EXCEPT !.cache[cur] = Snapshot(h.filetype[cur], h.lines[cur])]

\* Mutant: the routine does not return when the map has no entry.
DenopsStdBufferConcreteRestore_NoReturn(h, cur) ==
  LET snapshot == h.cache[cur]
      h1 == DenopsStdBufferReplace(h, cur, snapshot.content, Null, Null)
  IN IF h.err THEN h
     ELSE IF h1.err THEN h1
     ELSE [h1 EXCEPT !.filetype[cur] = snapshot.filetype]

\* function! DenopsStdBufferConcreteRestore_{suffix}() abort, run while
\* `cur` is the current buffer.
DenopsStdBufferConcreteRestore(h, cur) ==
  LET snapshot == h.cache[cur]
      h1 == DenopsStdBufferReplace(h, cur, snapshot.content, Null, Null)
  IN IF h.err \/ ~snapshot.present THEN h
     ELSE IF h1.err THEN h1
     ELSE [h1 EXCEPT !.filetype[cur] = snapshot.filetype]

\* The record of a store run by `by` while b is the current buffer.
Stored(b, by) ==
  [present |-> TRUE, filetype |-> filetype[b], content |-> lines[b],
   by |-> by,
   first |-> IF history[b].present THEN history[b].first ELSE lines[b],
   dirty |-> FALSE]

\* helper.remove("*", pat), then helper.define of BufWriteCmd and BufReadCmd
\* with pat = <buffer=bufnr>.
ConcreteAutocmds(group, bufnr) ==
  [k \in ConcreteHooks |->
     IF k[2] = bufnr THEN 1 ELSE group[k]]

\* concrete(denops, bufnr) is called.
CallConcrete(b) ==
  /\ Depth = 0
  /\ stack' = <<NewFrame("concrete", b, "none")>>
  /\ event' = NoEvent
  /\ UNCHANGED <<hostVars, sessionVars, history, extVars>>

\* The batch of concrete: the autocmd group is redefined for the buffer, then
\* DenopsStdBufferConcreteStore is called; it runs in the current buffer.
ConcreteBatch ==
  /\ Depth > 0
  /\ Top.op = "concrete"
  /\ Top.pc = "ready"
  /\ augroupConcrete' = ConcreteAutocmds(augroupConcrete, Top.bufnr)
  /\ LET h == IF registered
              THEN DenopsStdBufferConcreteStore(Host, CurBuf)
              ELSE Host
     IN /\ Commit(h)
        /\ stack' = SetTop([Top EXCEPT !.pc = "done",
                                       !.outcome = CallOutcome(h)])
  /\ history' = IF registered
                THEN [history EXCEPT ![CurBuf] = Stored(CurBuf, "concrete")]
                ELSE history
  /\ UNCHANGED <<winVars, context, registered, event, extVars>>

\* BufWriteCmd of buffer b: the user writes the buffer; the autocmd runs
\* with b as the current buffer (were it defined more than once, the further
\* runs would store the same snapshot again).
WriteHook(b) ==
  /\ Depth = 0
  /\ registered
  /\ augroupConcrete[<<"BufWriteCmd", b>>] > 0
  /\ Commit(DenopsStdBufferConcreteStore(Host, b))
  /\ history' = [history EXCEPT ![b] = Stored(b, "write")]
  /\ event' = NoEvent
  /\ UNCHANGED <<winVars, context, registered, augroupConcrete, stack,
                 extVars>>

\* The host state when BufReadCmd fires for a forced reload (:edit!) of b:
\* the content is discarded, the buffer is unmodified, and 'filetype' is
\* either kept or reset.
Reloading(h, b, keepFiletype) ==
  [h EXCEPT !.lines[b] = EmptyBuffer,
            !.modified[b] = FALSE,
            !.filetype[b] = IF keepFiletype THEN @ ELSE ""]

BufState(h, b) ==
  [lines |-> h.lines[b], filetype |-> h.filetype[b],
   modified |-> h.modified[b], modifiable |-> h.modifiable[b]]

\* BufReadCmd of buffer b: the buffer is reloaded; the autocmd runs with b
\* as the current buffer.
ReadHook(b, keepFiletype) ==
  /\ Depth = 0
  /\ registered
  /\ augroupConcrete[<<"BufReadCmd", b>>] > 0
  /\ LET h0 == Reloading(Host, b, keepFiletype)
         h == DenopsStdBufferConcreteRestore(h0, b)
     IN /\ Commit(h)
        /\ event' = [Event("read", b) EXCEPT !.err = h.err,
                                             !.entry = BufState(h0, b)]
  /\ UNCHANGED <<winVars, context, registered, augroupConcrete, stack,
                 history,
                 extVars>>

\* The user edits buffer b: new content and file type, 'modified' is set.
UserEdit(b, content, ft) ==
  /\ Depth = 0
  /\ optModifiable[b]
  /\ lines[b] # content \/ filetype[b] # ft
  /\ lines' = [lines EXCEPT ![b] = content]
  /\ filetype' = [filetype EXCEPT ![b] = ft]
  /\ optModified' = [optModified EXCEPT ![b] = TRUE]
  /\ history' = [history EXCEPT ![b].dirty = history[b].present]
  /\ event' = NoEvent
  /\ UNCHANGED <<optModifiable, fileformat, fileencoding, winVars,
                 sessionVars, stack,
                 extVars>>

\* The user moves to window w.
UserGotoWin(w) ==
  /\ Depth = 0
  /\ curwin # w
  /\ curwin' = w
  /\ event' = NoEvent
  /\ UNCHANGED <<bufVars, winbuf, sessionVars, stack, history, extVars>>

\* ----------------------------------------------------------------- reload
\* The content of the file of buffer b.
File(b) == <<b>>

\* The host with its windows and the autocmds a reload can run.
WinHost ==
  [lines |-> lines, modified |-> optModified, modifiable |-> optModifiable,
   fileformat |-> fileformat, fileencoding |-> fileencoding,
   filetype |-> filetype, cache |-> cache, err |-> FALSE,
   winbuf |-> winbuf, curwin |-> curwin, augroupReload |-> augroupReload,
   augroupConcrete |-> augroupConcrete, edited |-> NoEdit]

\* :edit in the active window: E37 when the buffer is modified; otherwise
\* the buffer is read again, by the BufReadCmd autocmd of the buffer if it
\* has one and from its file if not.
Edit(h) ==
  LET cur == h.winbuf[h.curwin]
      h0 == Reloading(h, cur, TRUE)
      h1 == IF h.augroupConcrete[<<"BufReadCmd", cur>>] > 0
            THEN DenopsStdBufferConcreteRestore(h0, cur)
            ELSE [h0 EXCEPT !.lines[cur] = File(cur)]
      done(ok) == [n |-> h.edited.n + 1, buf |-> cur, win |-> h.curwin,
                   ok |-> ok]
  IN IF h.err THEN h
     ELSE IF h.modified[cur]
     THEN [h EXCEPT !.err = TRUE, !.edited = done(FALSE)]
     ELSE [h1 EXCEPT !.edited = done(~h1.err)]

\* BufEnter of the active buffer: each autocmd of the reload group defined
\* for the buffer is removed (++once) and runs :edit; an error of the
\* autocmd is reported and does not stop the command that entered the
\* buffer.
BufEnter(h) ==
  LET cur == h.winbuf[h.curwin]
      n == h.augroupReload[cur]
      h1 == Edit([h EXCEPT !.augroupReload[cur] = 0])
  IN IF h.err \/ n = 0 THEN h
     ELSE [h1 EXCEPT !.err = FALSE, !.edited.n = h.edited.n + n]

\* win_gotoid(w): the window becomes the active one; BufEnter when its
\* buffer is not the one that was active.
WinGotoId(h, w) ==
  LET h1 == [h EXCEPT !.curwin = w]
  IN IF h.err THEN h
     ELSE IF h.winbuf[w] # h.winbuf[h.curwin] THEN BufEnter(h1)
     ELSE h1

\* Mutant: the autocmds of the buffer are not removed first.
ReloadAutocmds_NoRemove(group, bufnr) == [group EXCEPT ![bufnr] = @ + 1]

\* augroup denops_std_buffer_reload_{suffix}: autocmd! * <buffer=bufnr>,
\* then autocmd BufEnter <buffer=bufnr> ++nested ++once edit.
ReloadAutocmds(group, bufnr) == [group EXCEPT ![bufnr] = 1]

\* try | edit | finally | win_gotoid(winid_saved) | endtry: the error of
\* :edit is raised again after the finally clause.
TryEditFinally(h, winid_saved) ==
  LET h1 == Edit(h)
      h2 == WinGotoId([h1 EXCEPT !.err = FALSE], winid_saved)
  IN IF h.err THEN h ELSE [h2 EXCEPT !.err = h1.err \/ h2.err]

\* Mutant: no finally clause, the routine aborts at the error of :edit.
DenopsStdBufferReload_NoFinally(h, bufnr) ==
  LET winid_saved == h.curwin
      winid == BufWinId(h.winbuf, bufnr)
  IN IF h.err THEN h
     ELSE IF h.winbuf[h.curwin] = bufnr THEN Edit(h)
     ELSE IF winid = NoWin
     THEN [h EXCEPT !.augroupReload = ReloadAutocmds(@, bufnr)]
     ELSE WinGotoId(Edit(WinGotoId(h, winid)), winid_saved)

\* function! DenopsStdBufferReload_{suffix}(bufnr) abort
DenopsStdBufferReload(h, bufnr) ==
  LET winid_saved == h.curwin
      winid == BufWinId(h.winbuf, bufnr)
  IN IF h.err THEN h
     ELSE IF h.winbuf[h.curwin] = bufnr THEN Edit(h)
     ELSE IF winid = NoWin
     THEN [h EXCEPT !.augroupReload = ReloadAutocmds(@, bufnr)]
     ELSE TryEditFinally(WinGotoId(h, winid), winid_saved)

\* function! DenopsStdBufferOpen_{suffix}(bang, mods, opener, cmdarg,
\* bufname) abort, with the default options: `edit bufname` in the active
\* window, E37 when its buffer is modified.
DenopsStdBufferOpen(h, bufnr) ==
  IF h.err THEN h
  ELSE IF h.winbuf[h.curwin] = bufnr THEN Edit(h)
  ELSE IF h.modified[h.winbuf[h.curwin]] THEN [h EXCEPT !.err = TRUE]
  ELSE BufEnter([h EXCEPT !.winbuf[h.curwin] = bufnr])

\* The host takes the state a routine or an autocmd has left.
CommitWin(h) ==
  /\ Commit(h)
  /\ winbuf' = h.winbuf
  /\ curwin' = h.curwin
  /\ augroupReload' = h.augroupReload

\* The event of a routine or an autocmd run for buffer b that led the host
\* to the state h.
HostEvent(kind, b, h) ==
  [Event(kind, b) EXCEPT !.err = h.err, !.win = curwin, !.cur = CurBuf,
                         !.visible = BufWinId(winbuf, b) # NoWin,
                         !.hooks = augroupReload, !.edited = h.edited]

\* reload(denops, bufnr) is called; the plugin does not call it again for a
\* buffer whose timer is still pending.
CallReload(b) ==
  /\ Depth = 0
  /\ ~stopped
  /\ b \notin timers
  /\ stack' = <<NewFrame("reload", b, "none")>>
  /\ event' = NoEvent
  /\ UNCHANGED <<hostVars, sessionVars, history, extVars>>

\* await denops.cmd("call timer_start(0, { -> DenopsStdBufferReload(bufnr) })")
ReloadCmd ==
  /\ Depth > 0
  /\ Top.op = "reload"
  /\ Top.pc = "ready"
  /\ timers' = timers \cup {Top.bufnr}
  /\ stack' = SetTop([Top EXCEPT !.pc = "done", !.outcome = "ok"])
  /\ UNCHANGED <<hostVars, sessionVars, event, history, registryVars,
                 augroupReload, augroupSession, stopped, loaded>>

\* The timer of reload(b) fires: the routine runs, if it is defined.
TimerFires(b) ==
  /\ b \in timers
  /\ registered
  /\ timers' = timers \ {b}
  /\ LET h == DenopsStdBufferReload(WinHost, b)
     IN /\ CommitWin(h)
        /\ event' = HostEvent("reload", b, h)
  /\ UNCHANGED <<context, registered, augroupConcrete, stack, history,
                 registryVars, augroupSession, stopped, loaded>>

\* return await denops.call(`DenopsStdBufferOpen_${suffix}`, bang, mods,
\*   opener, cmdarg, bufname)
OpenCall ==
  /\ Depth > 0
  /\ Top.op = "open"
  /\ Top.pc = "ready"
  /\ LET h == IF registered THEN DenopsStdBufferOpen(WinHost, Top.bufnr)
              ELSE WinHost
     IN /\ CommitWin(h)
        /\ stack' = SetTop([Top EXCEPT !.pc = "done",
                                       !.outcome = CallOutcome(h)])
  /\ UNCHANGED <<context, registered, augroupConcrete, event, history,
                 registryVars, augroupSession, timers, stopped, loaded>>

\* A call of the session with the least arguments: open(bufname),
\* reload(bufnr), append(bufnr, [], {lnum: 0}), replace(bufnr, []) or
\* concrete(bufnr).
SessionCalls == {"open", "reload", "append", "replace", "concrete"}

CallSession(op, b) ==
  /\ Depth = 0
  /\ ~stopped
  /\ op = "reload" => b \notin timers
  /\ stack' = <<[NewFrame(op, b, "none") EXCEPT !.lnum = 0]>>
  /\ event' = NoEvent
  /\ UNCHANGED <<hostVars, sessionVars, history, extVars>>

\* A second call of the session is made while the first one is suspended at
\* `await execute(denops, script)`: its ensurePrerequisites finds the entry
\* of the context and returns the suffix at once. The request of its host
\* call is sent after the one of the script, so the call goes on when the
\* first one has left the stack.
CallOverlapping(op, b) ==
  /\ Depth = 1
  /\ NeedsPrerequisites(Top)
  /\ Top.pc = "register"
  /\ Memoized(context)
  /\ op = "reload" => b \notin timers
  /\ stack' = <<[NewFrame(op, b, "none") EXCEPT !.lnum = 0, !.pc = "ready",
                                               !.suffix = context]>>
               \o stack
  /\ obtained' = obtained \cup {context}
  /\ UNCHANGED <<hostVars, sessionVars, event, history, ulids, otherContext,
                 executions, hookVars, loaded>>

\* The first call of a second session: ensurePrerequisites draws its suffix
\* and memoizes it in the context of that session.
OtherSessionRegisters ==
  /\ ~Memoized(otherContext)
  /\ ulids < Len(Ulids)
  /\ ulids' = ulids + 1
  /\ otherContext' = Ulid(ulids + 1)
  /\ UNCHANGED <<hostVars, sessionVars, stack, event, history, executions,
                 obtained, hookVars, loaded>>

\* User DenopsStopped or User DenopsClosed is delivered: the autocmds of the
\* group denops_std_buffer_{suffix} run in the order of their definition.
\* The calls in progress are lost with the session.
Terminate ==
  /\ ~stopped
  /\ stopped' = TRUE
  /\ cache' = IF "unlet cache" \in augroupSession
              THEN [b \in Buffers |-> NoSnapshot] ELSE cache
  /\ augroupReload' = IF "clear reload" \in augroupSession
                      THEN [b \in AllBuffers |-> 0] ELSE augroupReload
  /\ augroupConcrete' = IF "clear concrete" \in augroupSession
                        THEN [k \in ConcreteHooks |-> 0]
                        ELSE augroupConcrete
  /\ augroupSession' = IF "clear session" \in augroupSession
                       THEN {} ELSE augroupSession
  /\ stack' = <<>>
  /\ event' = NoEvent
  /\ UNCHANGED <<hostVars, context, registered, history, registryVars,
                 timers, loaded>>

\* The user edits buffer b in the active window (:buffer b).
UserSwitchBuffer(b) ==
  /\ Depth = 0
  /\ CurBuf # b
  /\ LET h == BufEnter([WinHost EXCEPT !.winbuf[curwin] = b])
     IN /\ CommitWin(h)
        /\ event' = HostEvent("enter", b, h)
  /\ UNCHANGED <<context, registered, augroupConcrete, stack, history,
                 registryVars, augroupSession, timers, stopped, loaded>>

\* ----------------------------------------------------------------- decode
\* new TextDecoder(enc).decode(data), byte by byte: 0xFF is a letter in
\* latin1 and an invalid sequence, decoded to the marker U+FFFD ("?"), in
\* utf-8 and euc-jp.
DecodeByte(enc, byte) ==
  IF byte # "x" THEN byte ELSE IF enc = "latin1" THEN "y" ELSE "?"

TextDecode(enc, data) == [i \in 1..Len(data) |-> DecodeByte(enc, data[i])]

\* The text holds no invalid-sequence marker.
Validates(text) == \A i \in 1..Len(text) : text[i] # "?"

\* tryDecode(data, fileencodings): the first candidate, in the order of the
\* list, whose text has no marker; the last candidate if there is none.
TryDecode(data, fileencodings) ==
  LET ok == {i \in 1..Len(fileencodings) :
               Validates(TextDecode(fileencodings[i], data))}
      i == IF ok = {} THEN Len(fileencodings) ELSE Min(ok)
  IN <<fileencodings[i], TextDecode(fileencodings[i], data)>>

\* Mutant: the first candidate is taken without trying the others.
DecodeText_FirstCandidate(data, fenc, fileencodings) ==
  IF fenc # Null THEN <<fenc, TextDecode(fenc, data)>>
  ELSE <<fileencodings[1], TextDecode(fileencodings[1], data)>>

\* if (options.fileencoding) { enc = options.fileencoding; text = (new
\* TextDecoder(enc)).decode(data) } else { [enc, text] = tryDecode(data,
\* fileencodings) }
DecodeText(data, fenc, fileencodings) ==
  IF fenc # Null THEN <<fenc, TextDecode(fenc, data)>>
  ELSE TryDecode(data, fileencodings)

\* The delimiter of a file format.
Delimiter(ff) ==
  IF ff = "unix" THEN <<"n">> ELSE IF ff = "dos" THEN <<"r", "n">>
  ELSE <<"r">>

\* The places of the text where the delimiter stands.
Occurrences(text, delim) ==
  {i \in 1..(Len(text) - Len(delim) + 1) :
     SubSeq(text, i, i + Len(delim) - 1) = delim}

\* isFileFormat(x)
IsFileFormat(x) == x \in FileFormats

\* findFileFormat(text, fileformats): the first candidate, in the order of
\* the list, whose delimiter occurs in the text; Null if there is none.
FindFileFormat(text, fileformats) ==
  LET found == {i \in 1..Len(fileformats) :
                  Occurrences(text, Delimiter(fileformats[i])) # {}}
  IN IF found = {} THEN Null ELSE fileformats[Min(found)]

\* The elements of a set of numbers in increasing order.
Sorted(S) ==
  [i \in 1..Cardinality(S) |->
     CHOOSE x \in S : Cardinality({y \in S : y < x}) = i - 1]

\* splitText(text, ff): the segments between the delimiters, without the
\* last one when it is empty.
SplitText(text, ff) ==
  LET d == Len(Delimiter(ff))
      at == Sorted(Occurrences(text, Delimiter(ff)))
      n == Len(at)
      from(k) == IF k = 1 THEN 1 ELSE at[k - 1] + d
      to(k) == IF k = n + 1 THEN Len(text) ELSE at[k] - 1
      segments == [k \in 1..(n + 1) |-> SubSeq(text, from(k), to(k))]
  IN IF segments[n + 1] = <<>> THEN SubSeq(segments, 1, n) ELSE segments

\* Mutant: the format of the buffer is taken before the detected one.
ChosenFileFormat_CurrentFirst(option, detected, current) ==
  IF option # Null /\ IsFileFormat(option) THEN option
  ELSE current

\* maybe(options.fileformat, isFileFormat) ?? findFileFormat(text,
\* fileformats) ?? fileformat
ChosenFileFormat(option, detected, current) ==
  IF option # Null /\ IsFileFormat(option) THEN option
  ELSE IF detected # Null THEN detected
  ELSE current

\* decode(denops, bufnr, data, options) is called.
CallDecode(b, data, ff, fenc) ==
  /\ Depth = 0
  /\ stack' = <<[NewFrame("decode", b, "none")
                   EXCEPT !.data = data, !.ff = ff, !.fenc = fenc]>>
  /\ event' = NoEvent
  /\ UNCHANGED <<hostVars, sessionVars, history, extVars>>

\* batch.collect of 'fileformat' of the buffer, 'fileformats' and
\* 'fileencodings'; the lists are the host's, whatever they are.
DecodeCollect(fileformats, fileencodings) ==
  /\ Depth > 0
  /\ Top.op = "decode"
  /\ Top.pc = "start"
  /\ stack' = SetTop([Top EXCEPT !.pc = "decode",
                                 !.fileformat = fileformat[Top.bufnr],
                                 !.fileformats = fileformats,
                                 !.fileencodings = fileencodings])
  /\ UNCHANGED <<hostVars, sessionVars, event, history, extVars>>

\* The rest of decode, which calls the host no more.
DecodeReturn ==
  /\ Depth > 0
  /\ Top.op = "decode"
  /\ Top.pc = "decode"
  /\ LET dec == DecodeText(Top.data, Top.fenc, Top.fileencodings)
         ff == ChosenFileFormat(Top.ff,
                                FindFileFormat(dec[2], Top.fileformats),
                                Top.fileformat)
     IN stack' = SetTop([Top EXCEPT
                           !.pc = "done", !.outcome = "ok",
                           !.decoded = [content |-> SplitText(dec[2], ff),
                                        fileformat |-> ff,
                                        fileencoding |-> dec[1]]])
  /\ UNCHANGED <<hostVars, sessionVars, event, history, extVars>>

\* ------------------------------------------------------------------- load
\* load(denops, url, options) is called.
CallLoad(url, force) ==
  /\ Depth = 0
  /\ stack' = <<[NewFrame("load", Min(Buffers), "none")
                   EXCEPT !.url = url, !.force = force]>>
  /\ event' = NoEvent
  /\ UNCHANGED <<hostVars, sessionVars, history, extVars>>

\* loaded.has(url): a Set of objects holds an object, not its value.
Has(set, url) == url \in set

\* if (!options.force && loaded.has(url)) { return false; }
LoadCheck ==
  /\ Depth > 0
  /\ Top.op = "load"
  /\ Top.pc = "start"
  /\ stack' = SetTop(IF ~Top.force /\ Has(loaded, Top.url)
                     THEN [Top EXCEPT !.pc = "done", !.outcome = "ok",
                                      !.result = "false"]
                     ELSE [Top EXCEPT !.pc = "local"])
  /\ UNCHANGED <<hostVars, sessionVars, event, history, extVars>>

\* const scriptPath = await ensureLocalFile(url): the path of a file: URL;
\* for another URL the file of the cache directory, fetched if it is not
\* there, which can fail.
LoadEnsureLocalFile(ok) ==
  /\ Depth > 0
  /\ Top.op = "load"
  /\ Top.pc = "local"
  /\ Top.url.protocol = "file:" => ok
  /\ stack' = SetTop(IF ok THEN [Top EXCEPT !.pc = "source"]
                     ELSE [Top EXCEPT !.pc = "done", !.outcome = "err"])
  /\ UNCHANGED <<hostVars, sessionVars, event, history, extVars>>

\* await execute(denops, "execute printf('source %s', ...)"), which fails
\* when the script does; then loaded.add(url); return true.
LoadSource(ok) ==
  /\ Depth > 0
  /\ Top.op = "load"
  /\ Top.pc = "source"
  /\ loaded' = IF ok THEN loaded \cup {Top.url} ELSE loaded
  /\ stack' = SetTop(IF ok
                     THEN [Top EXCEPT !.pc = "done", !.outcome = "ok",
                                      !.result = "true", !.sourced = TRUE]
                     ELSE [Top EXCEPT !.pc = "done", !.outcome = "err",
                                      !.sourced = TRUE])
  /\ UNCHANGED <<hostVars, sessionVars, event, history, registryVars,
                 hookVars>>

\* ------------------------------------------------- the scoped-call machine
InitExt ==
  /\ otherContext = Null
  /\ augroupReload = [b \in AllBuffers |-> 0]
  /\ timers = {}
  /\ stopped = FALSE
  /\ loaded = {}

InitSession ==
  /\ InitExt
  /\ ulids = 0
  /\ executions = 0
  /\ obtained = {}
  /\ augroupSession = {}
  /\ context = Null
  /\ registered = FALSE
  /\ cache = [b \in Buffers |-> NoSnapshot]
  /\ augroupConcrete = [k \in ConcreteHooks |-> 0]
  /\ stack = <<>>
  /\ event = NoEvent
  /\ history = [b \in Buffers |-> NoHistory]

\* Every combination of flags; one window layout.
InitModifiable ==
  /\ lines = [b \in Buffers |-> EmptyBuffer]
  /\ optModified \in [Buffers -> BOOLEAN]
  /\ optModifiable \in [Buffers -> BOOLEAN]
  /\ filetype = [b \in Buffers |-> ""]
  /\ fileformat = [b \in Buffers |-> "unix"]
  /\ fileencoding = [b \in Buffers |-> "utf-8"]
  /\ winbuf = [w \in Windows |-> 1]
  /\ curwin = 1
  /\ InitSession

\* modifiable(denops, bufnr, executor) is called; the nested calls are those
\* on the buffer of the call they are made from.
InvokeModifiable(b) ==
  /\ IF Depth = 0 THEN TRUE ELSE b = Top.bufnr
  /\ Invoke("modifiable", b, "user")

NextModifiable ==
  \/ \E b \in Buffers : InvokeModifiable(b)
  \/ \E v \in BOOLEAN : ActSetModified(v)
  \/ \E v \in BOOLEAN : ActSetModifiable(v)
  \/ \E o \in Outcomes : ActFinish(o)
  \/ Return
  \/ ModifiableCollect
  \/ ModifiableSet
  \/ ModifiableRestore

SpecModifiable == InitModifiable /\ [][NextModifiable]_vars

\* Every window layout; one combination of flags.
InitEnsure ==
  /\ lines = [b \in Buffers |-> EmptyBuffer]
  /\ optModified = [b \in Buffers |-> FALSE]
  /\ optModifiable = [b \in Buffers |-> TRUE]
  /\ filetype = [b \in Buffers |-> ""]
  /\ fileformat = [b \in Buffers |-> "unix"]
  /\ fileencoding = [b \in Buffers |-> "utf-8"]
  /\ winbuf \in [Windows -> Buffers]
  /\ curwin \in Windows
  /\ InitSession

NextEnsure ==
  \/ \E b \in Buffers : Invoke("ensure", b, "user")
  \/ \E o \in Outcomes : ActFinish(o)
  \/ Return
  \/ EnsureCollect
  \/ EnsureInPlace
  \/ EnsureSwitchBuffer
  \/ EnsureGotoWin
  \/ EnsureRestore

SpecEnsure == InitEnsure /\ [][NextEnsure]_vars

\* One buffer in any state, the others empty, unmodified and modifiable;
\* every window layout, the first window active; the session registered by
\* an earlier call or not yet; one call of append or replace.
InitMutate ==
  /\ \E b0 \in Buffers, c \in Contents, m \in BOOLEAN, a \in BOOLEAN :
       /\ lines = [b \in Buffers |-> IF b = b0 THEN c ELSE EmptyBuffer]
       /\ optModified = [b \in Buffers |-> IF b = b0 THEN m ELSE FALSE]
       /\ optModifiable = [b \in Buffers |-> IF b = b0 THEN a ELSE TRUE]
  /\ filetype = [b \in Buffers |-> ""]
  /\ fileformat = [b \in Buffers |-> "unix"]
  /\ fileencoding = [b \in Buffers |-> "utf-8"]
  /\ winbuf \in [Windows -> Buffers]
  /\ curwin = Min(Windows)
  /\ InitExt
  /\ registered \in BOOLEAN
  /\ ulids = (IF registered THEN 1 ELSE 0)
  /\ executions = ulids
  /\ context = (IF registered THEN Ulid(1) ELSE Null)
  /\ obtained = (IF registered THEN {Ulid(1)} ELSE {})
  /\ augroupSession = (IF registered THEN TerminationCommands ELSE {})
  /\ cache = [b \in Buffers |-> NoSnapshot]
  /\ augroupConcrete = [k \in ConcreteHooks |-> 0]
  /\ stack = <<>>
  /\ event = NoEvent
  /\ history = [b \in Buffers |-> NoHistory]

LnumOptions == {NoLnum} \cup (0..MaxLines)
FileFormatOptions == {Null, "dos", "bad"}
FileEncodingOptions == {Null, "latin1"}

NextMutate ==
  \/ \E b \in Buffers, repl \in Repls, lnum \in LnumOptions :
       CallAppend(b, repl, lnum)
  \/ \E b \in Buffers, repl \in Repls, ff \in FileFormatOptions,
        fenc \in FileEncodingOptions : CallReplace(b, repl, ff, fenc)
  \/ PrerequisitesCached
  \/ PrerequisitesMemoize
  \/ PrerequisitesExecute
  \/ AppendLnumGiven
  \/ AppendAskLine
  \/ \E n \in 1..(2 * MaxLines) : ExecLine(n)
  \/ AppendGotLine
  \/ AppendCall
  \/ ReplaceCall
  \/ EnsureCollect
  \/ EnsureInPlace
  \/ EnsureSwitchBuffer
  \/ EnsureGotoWin
  \/ EnsureRestore
  \/ Return

SpecMutate == InitMutate /\ [][NextMutate]_vars

\* Window w displays buffer w (the last buffer in the windows beyond);
\* every buffer holds one line.
InitConcrete ==
  /\ lines = [b \in Buffers |-> <<1>>]
  /\ optModified = [b \in Buffers |-> FALSE]
  /\ optModifiable = [b \in Buffers |-> TRUE]
  /\ filetype = [b \in Buffers |-> ""]
  /\ fileformat = [b \in Buffers |-> "unix"]
  /\ fileencoding = [b \in Buffers |-> "utf-8"]
  /\ winbuf = [w \in Windows |-> IF w \in Buffers THEN w ELSE NumBufs]
  /\ curwin = 1
  /\ InitSession

\* The buffers the user edits: one of them, the buffers being
\* interchangeable; the others change by the calls and the hooks only.
EditedBuffers == {Min(Buffers)}

NextConcrete ==
  \/ \E b \in Buffers : CallConcrete(b)
  \/ PrerequisitesCached
  \/ PrerequisitesMemoize
  \/ PrerequisitesExecute
  \/ ConcreteBatch
  \/ Return
  \/ \E b \in Buffers : WriteHook(b)
  \/ \E b \in Buffers, keepFiletype \in BOOLEAN :
       ReadHook(b, keepFiletype)
  \/ \E b \in EditedBuffers, content \in Contents, ft \in FileTypes :
       UserEdit(b, content, ft)
  \/ \E w \in Windows : UserGotoWin(w)

SpecConcrete == InitConcrete /\ [][NextConcrete]_vars

\* The buffers the calls of a session name: one of them, the buffers being
\* interchangeable.
CalledBuffers == {Min(Buffers)}

\* Every buffer holds the content of its file; window w displays buffer w.
InitRegistry ==
  /\ lines = [b \in Buffers |-> File(b)]
  /\ optModified = [b \in Buffers |-> FALSE]
  /\ optModifiable = [b \in Buffers |-> TRUE]
  /\ filetype = [b \in Buffers |-> ""]
  /\ fileformat = [b \in Buffers |-> "unix"]
  /\ fileencoding = [b \in Buffers |-> "utf-8"]
  /\ winbuf = [w \in Windows |-> IF w \in Buffers THEN w ELSE NumBufs]
  /\ curwin = 1
  /\ InitSession

NextRegistry ==
  \/ \E op \in SessionCalls, b \in CalledBuffers : CallSession(op, b)
  \/ OtherSessionRegisters
  \/ PrerequisitesCached
  \/ PrerequisitesMemoize
  \/ PrerequisitesExecute
  \/ OpenCall
  \/ ReloadCmd
  \/ \E b \in Buffers : TimerFires(b)
  \/ AppendLnumGiven
  \/ AppendCall
  \/ ReplaceCall
  \/ ConcreteBatch
  \/ Return

SpecRegistry == InitRegistry /\ [][NextRegistry]_vars

\* Every buffer holds the content of its file, the first one with or
\* without changes not written; the windows display the buffers of Buffers
\* in every layout, any window active; HiddenBuffer is loaded and stays
\* displayed in no window.
InitReload ==
  /\ lines = [b \in AllBuffers |-> File(b)]
  /\ \E m \in BOOLEAN :
       optModified = [b \in AllBuffers |-> b = Min(Buffers) /\ m]
  /\ optModifiable = [b \in AllBuffers |-> TRUE]
  /\ filetype = [b \in AllBuffers |-> ""]
  /\ fileformat = [b \in AllBuffers |-> "unix"]
  /\ fileencoding = [b \in AllBuffers |-> "utf-8"]
  /\ winbuf \in [Windows -> Buffers]
  /\ curwin \in Windows
  /\ InitSession

NextReload ==
  \/ \E b \in AllBuffers : CallReload(b)
  \/ PrerequisitesCached
  \/ PrerequisitesMemoize
  \/ PrerequisitesExecute
  \/ ReloadCmd
  \/ Return
  \/ \E b \in AllBuffers : TimerFires(b)
  \/ \E b \in Buffers : UserSwitchBuffer(b)

SpecReload == InitReload /\ [][NextReload]_vars

\* modifiable(denops, bufnr, executor) is called when no call runs; the
\* state of the buffer at the call is kept for the properties.
CallModifiable(b) ==
  /\ Depth = 0
  /\ stack' = <<NewFrame("modifiable", b, "user")>>
  /\ event' = [Event("modifiable", b) EXCEPT !.entry = BufState(Host, b)]
  /\ UNCHANGED <<hostVars, sessionVars, history, extVars>>

\* Two calls are in progress, each suspended at an await: the other one is
\* the next to go on (the second call was not awaited by the executor of the
\* first, so neither waits for the other).
Yield ==
  /\ Depth = 2
  /\ stack' = <<stack[2], stack[1]>>
  /\ UNCHANGED <<hostVars, sessionVars, event, history, extVars>>

\* A second call of modifiable on the buffer of the first, made while the
\* executor of the first is suspended.
CallOverlappingModifiable ==
  /\ Depth = 1
  /\ InvokeModifiable(Top.bufnr)

\* Calls of modifiable on one buffer; a second call starts while the
\* executor of the first is suspended, and the two go on in any order.
NextOverlap ==
  \/ \E b \in CalledBuffers : CallModifiable(b)
  \/ CallOverlappingModifiable
  \/ Yield
  \/ \E v \in BOOLEAN : ActSetModified(v)
  \/ \E o \in Outcomes : ActFinish(o)
  \/ Return
  \/ ModifiableCollect
  \/ ModifiableSet
  \/ ModifiableRestore

SpecOverlap == InitModifiable /\ [][NextOverlap]_vars

\* Calls of ensure and modifiable, one after the other, whose executor may
\* close a window and whose restore step may fail.
CallScoped(op, b) == Depth = 0 /\ Invoke(op, b, "user")

NextRestore ==
  \/ \E op \in {"ensure", "modifiable"}, b \in Buffers : CallScoped(op, b)
  \/ \E o \in Outcomes : ActFinish(o)
  \/ \E w \in Windows : ActCloseWindow(w)
  \/ Return
  \/ ModifiableCollect
  \/ ModifiableSet
  \/ ModifiableRestore
  \/ \E done \in {0, 1} : ModifiableRestoreFails(done)
  \/ EnsureCollect
  \/ EnsureInPlace
  \/ EnsureSwitchBuffer
  \/ EnsureGotoWin
  \/ EnsureRestore
  \/ EnsureRestoreFails

SpecRestore == InitEnsure /\ [][NextRestore]_vars

\* The calls of a session, where a call may overlap the registration of the
\* first one and the script of the registration may fail.
NextRegistration ==
  \/ \E op \in SessionCalls, b \in CalledBuffers : CallSession(op, b)
  \/ \E op \in SessionCalls, b \in CalledBuffers : CallOverlapping(op, b)
  \/ PrerequisitesCached
  \/ PrerequisitesMemoize
  \/ PrerequisitesExecute
  \/ PrerequisitesExecuteFails
  \/ OpenCall
  \/ ReloadCmd
  \/ \E b \in Buffers : TimerFires(b)
  \/ AppendLnumGiven
  \/ AppendCall
  \/ ReplaceCall
  \/ ConcreteBatch
  \/ Return

SpecRegistration == InitRegistry /\ [][NextRegistration]_vars

\* The buffer of the calls has any file format; calls of decode with any
\* data and options, the host answering with any of the lists.
InitDecode ==
  /\ lines = [b \in Buffers |-> EmptyBuffer]
  /\ optModified = [b \in Buffers |-> FALSE]
  /\ optModifiable = [b \in Buffers |-> TRUE]
  /\ filetype = [b \in Buffers |-> ""]
  /\ \E ff \in FileFormats :
       fileformat = [b \in Buffers |-> IF b \in CalledBuffers THEN ff
                                       ELSE "unix"]
  /\ fileencoding = [b \in Buffers |-> "utf-8"]
  /\ winbuf = [w \in Windows |-> IF w \in Buffers THEN w ELSE NumBufs]
  /\ curwin = 1
  /\ InitSession

FileFormatGiven == {Null, "unix", "dos", "mac", "bad"}

\* The calls of decode, made when no call runs.
DecodeCalls ==
  /\ Depth = 0
  /\ \E b \in CalledBuffers, data \in Datas, ff \in FileFormatGiven,
        fenc \in FileEncodingOptions : CallDecode(b, data, ff, fenc)

NextDecode ==
  \/ DecodeCalls
  \/ \E fileformats \in FileFormatLists,
        fileencodings \in FileEncodingLists :
       DecodeCollect(fileformats, fileencodings)
  \/ DecodeReturn
  \/ Return

SpecDecode == InitDecode /\ [][NextDecode]_vars

\* Calls of load, one after the other, with any URL object.
NextLoad ==
  \/ \E url \in Urls, force \in BOOLEAN : CallLoad(url, force)
  \/ LoadCheck
  \/ \E ok \in BOOLEAN : LoadEnsureLocalFile(ok)
  \/ \E ok \in BOOLEAN : LoadSource(ok)
  \/ Return

SpecLoad == InitRegistry /\ [][NextLoad]_vars

\* The session from its first call to its end and after: reload and concrete
\* calls, the timers, the autocmds of the session and the termination event.
NextTeardown ==
  \/ \E op \in {"reload", "concrete"}, b \in CalledBuffers :
       CallSession(op, b)
  \/ PrerequisitesCached
  \/ PrerequisitesMemoize
  \/ PrerequisitesExecute
  \/ ReloadCmd
  \/ ConcreteBatch
  \/ Return
  \/ \E b \in Buffers : TimerFires(b)
  \/ \E b \in Buffers : WriteHook(b)
  \/ \E b \in Buffers, keepFiletype \in BOOLEAN :
       ReadHook(b, keepFiletype)
  \/ \E b \in Buffers : UserSwitchBuffer(b)
  \/ Terminate

SpecTeardown == InitRegistry /\ [][NextTeardown]_vars

\* ------------------------------------------------- properties: modifiable
\* C1: modifiable(bufnr, executor): whatever the flags of the buffer were and
\* however the executor ends (it returns, throws or rejects), when the call
\* finishes 'modified' and 'modifiable' of the buffer have the values they
\* had when the call started; and 'modifiable' is on while the executor
\* runs, as long as the executor has not changed it itself.
ModifiableRestoresFlags ==
  (Depth > 0 /\ Top.op = "modifiable") =>
    /\ Top.pc = "done" =>
         /\ optModified[Top.bufnr] = Top.entryModified
         /\ optModifiable[Top.bufnr] = Top.entryModifiable
    /\ (Top.pc = "action" /\ ~Top.touched) => optModifiable[Top.bufnr]

\* A call on a buffer that was not modifiable has finished with an error,
\* after its executor ran on the buffer made modifiable.
ModifiableRestoresFlagsWitness ==
  /\ Depth = 1
  /\ Top.op = "modifiable"
  /\ Top.pc = "done"
  /\ Top.outcome = "err"
  /\ ~Top.touched
  /\ ~Top.entryModifiable
  /\ Top.entryModified

\* C2: nested modifiable calls on one buffer: a call made from the executor
\* of another restores the values it captured at its own entry, and when the
\* outermost call finishes both flags have the values they had before it
\* began, whether the inner call succeeded or failed.
NestedModifiableComposes ==
  /\ (/\ Depth > 1
      /\ Top.op = "modifiable"
      /\ Top.pc = "done"
      /\ stack[Depth - 1].op = "modifiable"
      /\ stack[Depth - 1].bufnr = Top.bufnr) =>
        /\ optModified[Top.bufnr] = Top.savedModified
        /\ optModifiable[Top.bufnr] = Top.savedModifiable
        /\ Top.savedModified = Top.entryModified
        /\ Top.savedModifiable = Top.entryModifiable
  /\ (/\ Depth = 1
      /\ Top.op = "modifiable"
      /\ Top.pc = "done"
      /\ Top.nested # "none") =>
        /\ optModified[Top.bufnr] = Top.entryModified
        /\ optModifiable[Top.bufnr] = Top.entryModifiable

\* An outermost call on a non-modifiable buffer has finished after an inner
\* call on the same buffer failed.
NestedModifiableComposesWitness ==
  /\ Depth = 1
  /\ Top.op = "modifiable"
  /\ Top.pc = "done"
  /\ Top.nested = "err"
  /\ Top.outcome = "ok"
  /\ ~Top.entryModifiable

\* ----------------------------------------------------- properties: ensure
\* The buffer of the active window when the call started.
EntryBuf(f) == f.entryWinbuf[f.entryWin]

EntryVisible(f) == \E w \in Windows : f.entryWinbuf[w] = f.bufnr

\* C3: ensure(bufnr, executor) when bufnr is not the active buffer: the
\* executor runs with bufnr as the active buffer, in a window that already
\* displayed it if there is one (the layout is unchanged, the focus moved),
\* otherwise in the active window, switched to bufnr; when the call finishes,
\* however the executor ended, the active window and its buffer are those of
\* before the call.
EnsureSwitchesAndRestores ==
  (Depth > 0 /\ Top.op = "ensure" /\ EntryBuf(Top) # Top.bufnr) =>
    /\ Top.pc = "action" =>
         /\ CurBuf = Top.bufnr
         /\ IF EntryVisible(Top)
            THEN winbuf = Top.entryWinbuf /\ curwin # Top.entryWin
            ELSE /\ curwin = Top.entryWin
                 /\ winbuf = [Top.entryWinbuf EXCEPT ![curwin] = Top.bufnr]
    /\ Top.pc = "done" =>
         /\ curwin = Top.entryWin
         /\ winbuf[curwin] = EntryBuf(Top)

\* A call on a buffer displayed in no window has finished with an error.
EnsureSwitchesAndRestoresWitness ==
  /\ Depth = 1
  /\ Top.op = "ensure"
  /\ Top.pc = "done"
  /\ Top.outcome = "err"
  /\ EntryBuf(Top) # Top.bufnr
  /\ ~EntryVisible(Top)
  /\ Top.switched

\* C4: ensure(bufnr, executor) when bufnr is the buffer of the active window:
\* no focus change and no buffer switch is issued, the executor runs in the
\* window that was active, and the layout is unchanged, in every layout.
EnsureActiveRunsInPlace ==
  (Depth > 0 /\ Top.op = "ensure" /\ EntryBuf(Top) = Top.bufnr) =>
    /\ ~Top.switched
    /\ curwin = Top.entryWin
    /\ winbuf = Top.entryWinbuf

\* --------------------------------------------- properties: append, replace
Finished(op, outcome) ==
  /\ Depth = 1
  /\ Top.op = op
  /\ Top.pc = "done"
  /\ Top.outcome = outcome

\* The lines of `ls` with `repl` below line n.
InsertedBelow(ls, n, repl) ==
  [i \in 1..(Len(ls) + Len(repl)) |->
     IF i <= n THEN ls[i]
     ELSE IF i <= n + Len(repl) THEN repl[i - n]
     ELSE ls[i - Len(repl)]]

\* C5: append(bufnr, repl), with options.lnum or with the cursor line: after
\* a successful call the lines of repl stand below that line of the buffer
\* and 'modified' and 'modifiable' of the buffer are what they were before
\* the call, whatever they were.
AppendKeepsFlags ==
  Finished("append", "ok") =>
    /\ optModified[Top.bufnr] = Top.entryModified
    /\ optModifiable[Top.bufnr] = Top.entryModifiable
    /\ lines[Top.bufnr] = InsertedBelow(Top.entryLines, Top.lnum, Top.repl)

\* Lines were appended to an unmodified buffer that is not modifiable.
AppendKeepsFlagsWitness ==
  /\ Finished("append", "ok")
  /\ Top.repl # <<>>
  /\ ~Top.entryModified
  /\ ~Top.entryModifiable
  /\ Len(lines[Top.bufnr]) = Len(Top.entryLines) + Len(Top.repl)

\* C6: replace(bufnr, repl, options), with or without fileformat and
\* fileencoding: after a successful call 'modified' and 'modifiable' of the
\* buffer are what they were before the call, whatever they were.
ReplaceKeepsFlags ==
  Finished("replace", "ok") =>
    /\ optModified[Top.bufnr] = Top.entryModified
    /\ optModifiable[Top.bufnr] = Top.entryModifiable

\* The content and the format of an unmodified buffer that is not modifiable
\* were replaced.
ReplaceKeepsFlagsWitness ==
  /\ Finished("replace", "ok")
  /\ Top.repl # <<>>
  /\ Top.ff # Null
  /\ fileformat[Top.bufnr] = Top.ff
  /\ lines[Top.bufnr] # Top.entryLines
  /\ ~Top.entryModified
  /\ ~Top.entryModifiable

\* C7: append and replace restore on every exit path: when the call fails
\* after 'modifiable' has been forced on, 'modified' and 'modifiable' of the
\* buffer have the values captured at entry.
MutationRestoresOnFailure ==
  (Finished("append", "err") \/ Finished("replace", "err")) =>
    /\ optModified[Top.bufnr] = Top.entryModified
    /\ optModifiable[Top.bufnr] = Top.entryModifiable

\* C8 as stated: after a successful replace the lines of the buffer are
\* exactly repl.
ReplaceSetsExactlyRepl ==
  Finished("replace", "ok") => lines[Top.bufnr] = Top.repl

\* C8 as the routine behaves: after a successful replace the lines of the
\* buffer are exactly repl when repl is not empty, whether the buffer was
\* shorter, as long or longer; for an empty repl the buffer is left with a
\* single empty line, the host's empty buffer.
ReplaceSetsContent ==
  Finished("replace", "ok") =>
    lines[Top.bufnr] = (IF Top.repl = <<>> THEN EmptyBuffer ELSE Top.repl)

\* A buffer longer than repl was replaced by a non-empty repl.
ReplaceSetsContentWitness ==
  /\ Finished("replace", "ok")
  /\ Top.repl # <<>>
  /\ Len(Top.entryLines) > Len(Top.repl)
  /\ lines[Top.bufnr] = Top.repl

ConcreteStoresItsBuffer ==
  Finished("concrete", "ok") =>
    /\ cache[Top.bufnr] = Snapshot(filetype[Top.bufnr], lines[Top.bufnr])
    /\ \A b \in Buffers \ {Top.bufnr} : cache[b] = Top.entryCache[b]

\* C11: when DenopsStdBufferConcreteRestore runs for a buffer that has no
\* entry in the snapshot map it raises no error and leaves the lines, the
\* file type, 'modified' and 'modifiable' of the buffer as it found them.
RestoreWithoutSnapshotIsNoOp ==
  (event.kind = "read" /\ ~cache[event.buf].present) =>
    /\ ~event.err
    /\ BufState(Host, event.buf) = event.entry

\* The read hook of a buffer with a file type and no snapshot has run, while
\* another buffer has a snapshot.
RestoreWithoutSnapshotIsNoOpWitness ==
  /\ event.kind = "read"
  /\ ~cache[event.buf].present
  /\ event.entry.filetype = "ft"
  /\ filetype[event.buf] = "ft"
  /\ \E b \in Buffers : cache[b].present

\* ---------------------------------------- properties: ensurePrerequisites
\* C12: over any sequence of open, reload, append, replace and concrete
\* calls of one session the registration script is executed at most once,
\* by the first call; every call obtains the same suffix, the one memoized
\* in the context, and goes on with the routines registered; the suffix of
\* another session is a different one.
RegistrationIsIdempotent ==
  /\ executions <= 1
  /\ Cardinality(obtained) <= 1
  /\ obtained \subseteq {context}
  /\ (Depth > 0 /\ NeedsPrerequisites(Top)
        /\ Top.pc \notin {"start", "register"}) =>
       /\ executions = 1
       /\ registered
       /\ Top.suffix = context
  /\ (Memoized(context) /\ Memoized(otherContext)) =>
       context # otherContext

\* An append call has gone through ensurePrerequisites after a reload and a
\* concrete call of the session, and a second session has its suffix.
RegistrationIsIdempotentWitness ==
  /\ Depth = 1
  /\ Top.op = "append"
  /\ Top.pc = "done"
  /\ Top.suffix = context
  /\ timers # {}
  /\ \E b \in Buffers : cache[b].present
  /\ Memoized(otherContext)
  /\ executions = 1

\* C13: once the termination event of the session has been delivered, the
\* snapshot map is empty, no autocmd of the session is defined (reload
\* group, concrete group, the group of the termination autocmds) and no
\* later event runs a command of the session, whatever reload and concrete
\* calls came before.
TeardownReleasesSession ==
  stopped =>
    /\ \A b \in Buffers : ~cache[b].present
    /\ \A b \in Buffers : augroupReload[b] = 0
    /\ \A k \in ConcreteHooks : augroupConcrete[k] = 0
    /\ augroupSession = {}
    /\ event.kind = "enter" => event.edited.n = 0

\* ------------------------------------------------------ properties: reload
\* C14: when DenopsStdBufferReload(bufnr) has run, the active window is the
\* one that was active before, also when :edit failed.  For the active
\* buffer :edit ran in the active window; for a buffer displayed in another
\* window it ran once, with a window displaying the buffer as the active
\* one; in both cases no autocmd was defined.  Only for a buffer displayed
\* in no window no :edit ran and the reload was left to the BufEnter
\* autocmd of the buffer.
ReloadKeepsFocus ==
  event.kind = "reload" =>
    /\ curwin = event.win
    /\ IF event.cur = event.buf
       THEN /\ event.edited = [n |-> 1, buf |-> event.buf,
                               win |-> event.win, ok |-> ~event.err]
            /\ augroupReload = event.hooks
       ELSE IF event.visible
       THEN /\ event.edited.n = 1
            /\ event.edited.buf = event.buf
            /\ event.edited.win # event.win
            /\ winbuf[event.edited.win] = event.buf
            /\ event.edited.ok = ~event.err
            /\ augroupReload = event.hooks
       ELSE /\ event.edited.n = 0
            /\ ~event.err
            /\ augroupReload[event.buf] = 1

\* The reload of a buffer displayed in another window than the active one
\* has failed, the buffer having changes not written.
ReloadKeepsFocusWitness ==
  /\ event.kind = "reload"
  /\ event.cur # event.buf
  /\ event.visible
  /\ event.err
  /\ ~event.edited.ok
  /\ event.edited.win # curwin
  /\ curwin = event.win

\* C19: a buffer has at most one BufEnter autocmd of the reload group, and
\* none while a window displays it.  When DenopsStdBufferReload has run for
\* a buffer displayed in no window, once or again, the buffer has exactly
\* one.  When the buffer is entered the autocmd is removed and :edit runs as
\* many times as the buffer had autocmds, once at most, so that a later
\* entry runs nothing unless reload is called again.  In both events the
\* autocmds of the other buffers are as they were.
DeferredReloadRunsOnce ==
  /\ \A b \in AllBuffers : augroupReload[b] <= 1
  /\ \A b \in AllBuffers :
       BufWinId(winbuf, b) # NoWin => augroupReload[b] = 0
  /\ (event.kind = "reload" /\ ~event.visible) =>
       /\ augroupReload[event.buf] = 1
       /\ \A b \in AllBuffers \ {event.buf} :
            augroupReload[b] = event.hooks[b]
  /\ event.kind = "enter" =>
       /\ augroupReload[event.buf] = 0
       /\ event.edited.n = event.hooks[event.buf]
       /\ event.edited.n <= 1
       /\ event.edited.n = 1 => event.edited.buf = event.buf
       /\ \A b \in AllBuffers \ {event.buf} :
            augroupReload[b] = event.hooks[b]

\* A buffer that had a pending autocmd was entered and reloaded once, while
\* the pending autocmd of another buffer stayed.
DeferredReloadRunsOnceWitness ==
  /\ event.kind = "enter"
  /\ event.hooks[event.buf] = 1
  /\ event.edited.n = 1
  /\ event.edited.ok
  /\ augroupReload[event.buf] = 0
  /\ \E b \in AllBuffers \ {event.buf} :
       augroupReload[b] = 1 /\ event.hooks[b] = 1

\* DenopsStdBufferReload has run again for a buffer displayed in no window
\* that had a pending autocmd, and another buffer has its own.
DeferredReloadRepeatedWitness ==
  /\ event.kind = "reload"
  /\ ~event.visible
  /\ event.hooks[event.buf] = 1
  /\ augroupReload[event.buf] = 1
  /\ \E b \in AllBuffers \ {event.buf} : augroupReload[b] = 1

\* -------------------------------------------------------- properties: load
\* C15: when a call of load completes: if the url had been loaded before
\* and force is not set, it has returned false and sourced nothing;
\* otherwise it has sourced the script, the url is in the loaded set and it
\* has returned true; and the loaded set has lost nothing.  A url is the
\* same url when it names the same resource (the same href).
LoadSourcesOnce ==
  (Depth = 1 /\ Top.op = "load" /\ Top.pc = "done" /\ Top.outcome = "ok") =>
    /\ Top.entryLoaded \subseteq loaded
    /\ IF ~Top.force /\ Top.url.href \in {u.href : u \in Top.entryLoaded}
       THEN /\ Top.result = "false"
            /\ ~Top.sourced
            /\ loaded = Top.entryLoaded
       ELSE /\ Top.result = "true"
            /\ Top.sourced
            /\ Top.url \in loaded


\* A call of decode has returned.
Decoded == Depth > 0 /\ Top.op = "decode" /\ Top.pc = "done"

\* The text that was split: the data under the returned encoding.
DecodedText == TextDecode(Top.decoded.fileencoding, Top.data)

\* The format a candidate list detects in the text, said without
\* FindFileFormat: a candidate whose delimiter occurs and before which no
\* candidate's delimiter occurs.
DetectedIs(ff) ==
  \E i \in 1..Len(Top.fileformats) :
    /\ Top.fileformats[i] = ff
    /\ Occurrences(DecodedText, Delimiter(ff)) # {}
    /\ \A j \in 1..(i - 1) :
         Occurrences(DecodedText, Delimiter(Top.fileformats[j])) = {}

NothingDetected ==
  \A i \in 1..Len(Top.fileformats) :
    Occurrences(DecodedText, Delimiter(Top.fileformats[i])) = {}

\* The returned file format is the one the content was split with, and no
\* line of the content holds its delimiter.
SplitWithReturnedFormat ==
  /\ Top.decoded.content = SplitText(DecodedText, Top.decoded.fileformat)
  /\ \A k \in 1..Len(Top.decoded.content) :
       Occurrences(Top.decoded.content[k],
                   Delimiter(Top.decoded.fileformat)) = {}

\* C16 as stated: the file format decode returns is the fileformat option if
\* one is given, else the format detected in the text from the list of
\* acceptable formats, else the current format of the buffer; the content is
\* split with the returned format and holds none of its delimiters.
DecodeFileFormatPrecedence ==
  Decoded =>
    /\ Top.ff # Null => Top.decoded.fileformat = Top.ff
    /\ Top.ff = Null =>
         \/ DetectedIs(Top.decoded.fileformat)
         \/ NothingDetected /\ Top.decoded.fileformat = Top.fileformat
    /\ SplitWithReturnedFormat

\* C16 amended: the fileformat option takes precedence if it is given and is
\* one of unix, dos and mac; an option that is no file format counts as not
\* given. Then the detected format, then the current format of the buffer;
\* the content is split with the returned format and holds none of its
\* delimiters.
DecodeValidFileFormatPrecedence ==
  Decoded =>
    /\ (Top.ff # Null /\ Top.ff \in {"unix", "dos", "mac"}) =>
         Top.decoded.fileformat = Top.ff
    /\ (Top.ff = Null \/ Top.ff \notin {"unix", "dos", "mac"}) =>
         \/ DetectedIs(Top.decoded.fileformat)
         \/ NothingDetected /\ Top.decoded.fileformat = Top.fileformat
    /\ SplitWithReturnedFormat

\* decode has returned the detected format although the buffer has another
\* one and the option is no file format.
DecodeValidFileFormatPrecedenceWitness ==
  /\ Decoded
  /\ Top.ff = "bad"
  /\ DetectedIs(Top.decoded.fileformat)
  /\ Top.decoded.fileformat # Top.fileformat
  /\ Len(Top.decoded.content) = 2

\* C17: without a fileencoding option, decode returns the first encoding of
\* the candidate list, in order, under which the data decodes without an
\* invalid-sequence marker; if there is none it returns the last candidate
\* and the text decoded with markers under it; it never ends with an error.
DecodeEncodingSelection ==
  (Decoded /\ Top.fenc = Null) =>
    /\ Top.outcome = "ok"
    /\ \E i \in 1..Len(Top.fileencodings) :
         /\ Top.fileencodings[i] = Top.decoded.fileencoding
         /\ \A j \in 1..(i - 1) :
              ~Validates(TextDecode(Top.fileencodings[j], Top.data))
         /\ \/ Validates(TextDecode(Top.fileencodings[i], Top.data))
            \/ i = Len(Top.fileencodings)
    /\ Top.decoded.content = SplitText(DecodedText, Top.decoded.fileformat)

\* Data that is no UTF-8 has been decoded with the candidates utf-8 and
\* latin1 and latin1 is returned.
DecodeEncodingSelectionWitness ==
  /\ Decoded
  /\ Top.fenc = Null
  /\ Top.fileencodings = <<"utf-8", "latin1">>
  /\ ~Validates(TextDecode("utf-8", Top.data))
  /\ Top.decoded.fileencoding = "latin1"

\* No candidate decodes the data: the last one is returned, with markers.
DecodeEncodingLossyWitness ==
  /\ Decoded
  /\ Top.fenc = Null
  /\ Top.fileencodings = <<"utf-8", "euc-jp">>
  /\ Top.decoded.fileencoding = "euc-jp"
  /\ \E k \in 1..Len(Top.decoded.content) :
       ~Validates(Top.decoded.content[k])


\* A call of ensure or modifiable has ended and its restore step had failed.
RestoreFailed(f) ==
  f.op \in {"ensure", "modifiable"} /\ f.pc = "done"
  /\ f.restored \in {"rejected", "not found"}

\* C18: in ensure and modifiable, when the restore step fails (the switch
\* back to the window or buffer, or the write-back of the flags), the call
\* ends with an error, whether the executor had succeeded or failed; no call
\* reports success while its restore step failed.
RestoreFailureIsNeverSwallowed ==
  \A i \in 1..Depth : RestoreFailed(stack[i]) => stack[i].outcome = "err"

\* The same for the restore steps that fail with an error of the host.
RaisedRestoreFailurePropagates ==
  \A i \in 1..Depth :
    (RestoreFailed(stack[i]) /\ stack[i].restored = "rejected") =>
      stack[i].outcome = "err"


\* A call of concrete has ended without an error.
Concreted ==
  Depth > 0 /\ Top.op = "concrete" /\ Top.pc = "done" /\ Top.outcome = "ok"

\* The buffer of a finished call of concrete has one write hook and one read
\* hook, no buffer ever has more, and the hooks of the other buffers are the
\* ones they had when the call was made.
ConcreteHooksArePerBuffer ==
  /\ \A k \in ConcreteHooks : augroupConcrete[k] <= 1
  /\ Concreted =>
       \A k \in ConcreteHooks :
         augroupConcrete[k] = IF k[2] = Top.bufnr THEN 1
                              ELSE Top.entryHooks[k]

\* C20: after any calls of concrete every concreted buffer has exactly one
\* write hook and one read hook, and a call concrete(b2) leaves the hooks
\* and the snapshot of every other buffer b1 as they were, so that a later
\* read hook of b1 still restores b1's snapshot.
ConcreteIsPerBuffer ==
  /\ ConcreteHooksArePerBuffer
  /\ Concreted =>
       \A b1 \in Buffers \ {Top.bufnr} : cache[b1] = Top.entryCache[b1]


\* C21: whenever ensurePrerequisites has returned the suffix to a caller,
\* the first one or a later one, a call that overlaps the pending
\* registration included, the routines named with the suffix have been
\* registered; after a failed registration no call obtains the suffix.
RegistrationPrecedesUse == obtained # {} => registered


\* C22: when a second call of modifiable on the same buffer starts while
\* the executor of the first is suspended, and the two calls finish in
\* either order, then after both have finished 'modified' and 'modifiable'
\* of the buffer are what they were before the first call started.
OverlappingModifiableRestoresFlags ==
  (Depth = 0 /\ event.kind = "modifiable") =>
    /\ optModified[event.buf] = event.entry.modified
    /\ optModifiable[event.buf] = event.entry.modifiable

====
